---- MODULE Spec2Model ----
(***************************************************************************)
(* A model of src/when_to_expect.py: the WhenToExpect plugin.              *)
(*                                                                         *)
(* Strings are sequences of one-character strings.  A Python float is an   *)
(* exact rational [neg, num, den] in lowest terms (neg keeps the sign of   *)
(* a zero, so -0.0 and 0.0 differ as they do in Python).  The tokens of    *)
(* the model are short, so every value parse produces is far from the      *)
(* limits of a double and the rational is the value the double stands for. *)
(***************************************************************************)
EXTENDS Integers, Sequences, FiniteSets, TLC

VARIABLES pc, method, arg, ret

vars == <<pc, method, arg, ret>>

(***************************************************************************)
(* Characters and strings                                                  *)
(***************************************************************************)
Digits == {"0", "1", "2", "3", "4", "5", "6", "7", "8", "9"}

DigitVal(ch) ==
    CASE ch = "0" -> 0 [] ch = "1" -> 1 [] ch = "2" -> 2 [] ch = "3" -> 3
      [] ch = "4" -> 4 [] ch = "5" -> 5 [] ch = "6" -> 6 [] ch = "7" -> 7
      [] ch = "8" -> 8 [] ch = "9" -> 9

DigitChar(d) ==
    CASE d = 0 -> "0" [] d = 1 -> "1" [] d = 2 -> "2" [] d = 3 -> "3"
      [] d = 4 -> "4" [] d = 5 -> "5" [] d = 6 -> "6" [] d = 7 -> "7"
      [] d = 8 -> "8" [] d = 9 -> "9"

\* str.isspace for the characters of the model
IsSpace(ch) == ch = " "

RECURSIVE Pow10(_)
Pow10(k) == IF k = 0 THEN 1 ELSE 10 * Pow10(k - 1)

\* int(s) for a string of decimal digits
RECURSIVE DigitsVal(_)
DigitsVal(s) ==
    IF s = <<>> THEN 0
    ELSE 10 * DigitsVal(SubSeq(s, 1, Len(s) - 1)) + DigitVal(s[Len(s)])

\* the number of digits of s from position i on (the greedy \d* of a regex)
RECURSIVE DigitRun(_, _)
DigitRun(s, i) ==
    IF i <= Len(s) /\ s[i] \in Digits THEN 1 + DigitRun(s, i + 1) ELSE 0

\* str.strip(): leading and trailing whitespace removed
RECURSIVE LStrip(_)
LStrip(s) == IF s # <<>> /\ IsSpace(Head(s)) THEN LStrip(Tail(s)) ELSE s

RECURSIVE RStripSpace(_)
RStripSpace(s) ==
    IF s # <<>> /\ IsSpace(s[Len(s)])
    THEN RStripSpace(SubSeq(s, 1, Len(s) - 1)) ELSE s

Strip(s) == RStripSpace(LStrip(s))

\* str.split(): the maximal runs of non-whitespace characters, in order
RECURSIVE SplitFrom(_, _)
SplitFrom(s, cur) ==
    IF s = <<>> THEN (IF cur = <<>> THEN <<>> ELSE <<cur>>)
    ELSE IF IsSpace(Head(s))
         THEN (IF cur = <<>> THEN <<>> ELSE <<cur>>) \o SplitFrom(Tail(s), <<>>)
         ELSE SplitFrom(Tail(s), Append(cur, Head(s)))

Split(s) == SplitFrom(s, <<>>)

(***************************************************************************)
(* Floats as exact rationals                                               *)
(***************************************************************************)
RECURSIVE GCD(_, _)
GCD(a, b) == IF b = 0 THEN a ELSE GCD(b, a % b)

\* the rational n / d with the common factor g cancelled
Cancel(neg, n, d, g) == [neg |-> neg, num |-> n \div g, den |-> d \div g]

MkFloat(neg, n, d) == Cancel(neg, n, d, GCD(n, d))

FZero == [neg |-> FALSE, num |-> 0, den |-> 1]
FOne  == [neg |-> FALSE, num |-> 1, den |-> 1]
FHalf == [neg |-> FALSE, num |-> 1, den |-> 2]

IsZero(x) == x.num = 0
IsPos(x)  == x.num > 0 /\ ~x.neg
IsNeg(x)  == x.num > 0 /\ x.neg

\* x == y on floats (0.0 == -0.0)
FEq(x, y) == (IsZero(x) /\ IsZero(y)) \/ x = y

\* x < y
Signed(x) == IF x.neg THEN 0 - x.num ELSE x.num

FLess(x, y) == Signed(x) * y.den < Signed(y) * x.den

\* x + y for x, y >= 0
FAdd(x, y) == MkFloat(FALSE, x.num * y.den + y.num * x.den, x.den * y.den)

\* 1 - x
OneMinus(x) ==
    IF x.neg THEN MkFloat(FALSE, x.den + x.num, x.den)
    ELSE IF x.num <= x.den THEN MkFloat(FALSE, x.den - x.num, x.den)
    ELSE MkFloat(TRUE, x.num - x.den, x.den)

\* x / y: Python raises ZeroDivisionError for a zero divisor
FDiv(x, y) ==
    IF IsZero(y) THEN [kind |-> "raise", exc |-> "ZeroDivisionError"]
    ELSE [kind |-> "return",
          val  |-> MkFloat(x.neg # y.neg, x.num * y.den, x.den * y.num)]

(***************************************************************************)
(* float(s): optional whitespace, optional sign, digits with an optional   *)
(* fraction ("1", "1.", "1.5") or a fraction alone (".5"); anything else   *)
(* is a ValueError.  The steps pass their results on as arguments.         *)
(***************************************************************************)
\* ni digits, then (nf >= 0) a point and nf digits, or (nf = -1) no point
FloatOfParts(neg, body, ni, nf) ==
    IF nf = -1
    THEN IF ni = Len(body) /\ ni >= 1
         THEN [kind |-> "return", val |-> MkFloat(neg, DigitsVal(body), 1)]
         ELSE [kind |-> "raise", exc |-> "ValueError"]
    ELSE IF ni + 1 + nf = Len(body) /\ ni + nf >= 1
         THEN [kind |-> "return",
               val  |-> MkFloat(neg,
                                DigitsVal(SubSeq(body, 1, ni)) * Pow10(nf)
                                  + DigitsVal(SubSeq(body, ni + 2, ni + 1 + nf)),
                                Pow10(nf))]
         ELSE [kind |-> "raise", exc |-> "ValueError"]

FloatOfBody(neg, body, ni) ==
    FloatOfParts(neg, body, ni,
                 IF ni < Len(body) /\ body[ni + 1] = "." THEN DigitRun(body, ni + 2) ELSE -1)

FloatOfSigned(neg, body) == FloatOfBody(neg, body, DigitRun(body, 1))

FloatOfStripped(s) ==
    IF s # <<>> /\ Head(s) = "-" THEN FloatOfSigned(TRUE, Tail(s))
    ELSE FloatOfSigned(FALSE, s)

PyFloat(str) == FloatOfStripped(Strip(str))

(***************************************************************************)
(* re.match(r"(\d+(?:\.\d+)?)<sep>(\d+(?:\.\d+)?)", s): anchored at the    *)
(* start of s only; what follows the second group is ignored.              *)
(***************************************************************************)
\* ni digits at position i, then nf digits behind a point
DecimalLenOf(ni, nf) == IF ni = 0 THEN 0 ELSE IF nf = 0 THEN ni ELSE ni + 1 + nf

DecimalLenFrom(s, i, ni) ==
    DecimalLenOf(ni, IF i + ni <= Len(s) /\ s[i + ni] = "."
                     THEN DigitRun(s, i + ni + 1) ELSE 0)

\* the length of \d+(?:\.\d+)? matched greedily at position i, 0 for no match
DecimalLen(s, i) == DecimalLenFrom(s, i, DigitRun(s, i))

NoMatch == [ok |-> FALSE, g1 |-> <<>>, g2 |-> <<>>]

\* group 1 of length l1, the separator, group 2 of length n2
MatchOf(s, l1, n2) ==
    IF n2 > 0
    THEN [ok |-> TRUE, g1 |-> SubSeq(s, 1, l1), g2 |-> SubSeq(s, l1 + 2, l1 + 1 + n2)]
    ELSE NoMatch

\* group 1 must be followed by the separator: a shorter group 1 would be followed
\* by a digit or by ".", so the greedy match is the only candidate
MatchFrom(s, sep, n1) ==
    IF n1 > 0 /\ n1 < Len(s) /\ s[n1 + 1] = sep
    THEN MatchOf(s, n1, DecimalLen(s, n1 + 2))
    ELSE NoMatch

ReMatch(s, sep) == MatchFrom(s, sep, DecimalLen(s, 1))

(***************************************************************************)
(* WhenToExpect.fraction_to_float                                          *)
(***************************************************************************)
\* float(g1) / float(g2) of a matched fraction; the groups are digit strings, so
\* float never raises ValueError on them, and only ValueError is caught
FractionValue(m) == FDiv(PyFloat(m.g1).val, PyFloat(m.g2).val)

\* a slip that takes the odds a:b for the fraction a/b
OddsValueAsFraction(m) == FDiv(PyFloat(m.g1).val, PyFloat(m.g2).val)

\* float(g1) / (float(g1) + float(g2)) of matched odds
OddsValue(m) ==
    FDiv(PyFloat(m.g1).val, FAdd(PyFloat(m.g1).val, PyFloat(m.g2).val))

\* the sentinel of the final "return 0.0"
Sentinel == [kind |-> "return", val |-> FZero]

\* the else branch of "if matches": the odds pattern
OddsBranch(odds) == IF odds.ok THEN OddsValue(odds) ELSE Sentinel

\* the except branch of float(fraction): the fraction pattern first
ExceptBranch(fraction, frac) ==
    IF frac.ok THEN FractionValue(frac) ELSE OddsBranch(ReMatch(fraction, ":"))

TryFloat(fraction, direct) ==
    IF direct.kind = "return" THEN direct
    ELSE ExceptBranch(fraction, ReMatch(fraction, "/"))

fraction_to_float(fraction) == TryFloat(fraction, PyFloat(fraction))

(***************************************************************************)
(* math.log on exact rationals.  log2 of a rational is bracketed by two    *)
(* integers in units of 2^-LogBits: the mantissa is held in fixed point    *)
(* with MantBits fractional bits, and repeated squaring yields one bit of  *)
(* the logarithm per step, rounded down for the lower and up for the upper *)
(* bound.  A power of two has the exact logarithm as both bounds.          *)
(***************************************************************************)
MantBits == 28
LogBits  == 22
MantOne  == 2^MantBits
MantTwo  == 2 * MantOne
HalfWord == 2^(MantBits \div 2)
LogUnit  == 2^LogBits

\* hi + t / HalfWord, rounded up (with up) when t or y leaves a remainder
MulShiftCarry(hi, t, y, up) ==
    IF up /\ (t % HalfWord # 0 \/ y % HalfWord # 0)
    THEN hi + (t \div HalfWord) + 1
    ELSE hi + (t \div HalfWord)

\* the product of a1 * HalfWord + a0 and b1 * HalfWord + b0 over MantOne
MulShiftHalves(a1, a0, b1, b0, up) ==
    MulShiftCarry(a1 * b1, a1 * b0 + a0 * b1 + ((a0 * b0) \div HalfWord), a0 * b0, up)

\* floor (or ceiling, with up) of a * b / MantOne for 0 <= a, b <= MantTwo,
\* computed in 14-bit halves so that no product leaves 32 bits
MulShift(a, b, up) ==
    MulShiftHalves(a \div HalfWord, a % HalfWord, b \div HalfWord, b % HalfWord, up)

\* the largest power-of-two multiple of d that is <= n (n >= d > 0)
RECURSIVE ScaleUp(_, _)
ScaleUp(n, D) == IF 2 * D <= n THEN ScaleUp(n, 2 * D) ELSE D

RECURSIVE Log2Int(_)
Log2Int(k) == IF k <= 1 THEN 0 ELSE 1 + Log2Int(k \div 2)

\* k bits of r / D (0 <= r < D) by long division: [bits, rem]
RECURSIVE DivBits(_, _, _, _)
DivBits(r, D, k, acc) ==
    IF k = 0 THEN [bits |-> acc, rem |-> r]
    ELSE IF 2 * r >= D THEN DivBits(2 * r - D, D, k - 1, 2 * acc + 1)
         ELSE DivBits(2 * r, D, k - 1, 2 * acc)

\* k bits of log2(m / MantOne) for a mantissa MantOne <= m <= MantTwo
RECURSIVE SquareBits(_, _, _, _)

\* one step: sq is the square of the mantissa, sq >= 2 yields the bit 1
SquareStep(sq, k, up, acc) ==
    IF sq >= MantTwo
    THEN SquareBits(IF up THEN (sq + 1) \div 2 ELSE sq \div 2, k - 1, up, 2 * acc + 1)
    ELSE SquareBits(sq, k - 1, up, 2 * acc)

SquareBits(m, k, up, acc) ==
    IF k = 0 THEN acc ELSE SquareStep(MulShift(m, m, up), k, up, acc)

\* the bracket from the exponent e and the mantissa bits q of n / d
BracketOf(e, q) ==
    IF q.rem = 0 /\ q.bits = 0
    THEN [lo |-> e * LogUnit, hi |-> e * LogUnit]
    ELSE [lo |-> e * LogUnit + SquareBits(MantOne + q.bits, LogBits, FALSE, 0),
          hi |-> e * LogUnit
                 + SquareBits(IF q.rem = 0 THEN MantOne + q.bits ELSE MantOne + q.bits + 1,
                              LogBits, TRUE, 0)
                 + 1]

BracketScaled(n, d, D) == BracketOf(Log2Int(D \div d), DivBits(n - D, D, MantBits, 0))

\* [lo, hi] with lo <= log2(n / d) * LogUnit <= hi, for n > d > 0
Log2Bracket(n, d) == BracketScaled(n, d, ScaleUp(n, d))

\* math.log(x) of one argument: ValueError unless x > 0; otherwise the sign of
\* the logarithm and a bracket of its magnitude
LogHelper(x) ==
    IF ~IsPos(x) THEN [kind |-> "raise", exc |-> "ValueError"]
    ELSE IF x.num = x.den THEN [kind |-> "return", sign |-> 0, lo |-> 0, hi |-> 0]
    ELSE IF x.num > x.den
         THEN [kind |-> "return", sign |-> 1] @@ Log2Bracket(x.num, x.den)
         ELSE [kind |-> "return", sign |-> -1] @@ Log2Bracket(x.den, x.num)

\* log(x) / log(base) from the two logarithms
LogQuotient(num, den) ==
    IF num.kind = "raise" THEN [kind |-> "raise", exc |-> num.exc]
    ELSE IF den.kind = "raise" THEN [kind |-> "raise", exc |-> den.exc]
    ELSE IF den.sign = 0 THEN [kind |-> "raise", exc |-> "ZeroDivisionError"]
    ELSE [kind |-> "return",
          neg  |-> IF num.sign = 0 THEN den.sign < 0 ELSE num.sign # den.sign,
          nlo  |-> num.lo, nhi |-> num.hi, dlo |-> den.lo, dhi |-> den.hi]

\* math.log(x, base) = log(x) / log(base): the logarithm of x is taken first, a
\* zero log(base) is a ZeroDivisionError.  The quotient is a sign and a bracket
\* [nlo / dhi, nhi / dlo] of its magnitude.
MathLog(x, base) == LogQuotient(LogHelper(x), LogHelper(base))

(***************************************************************************)
(* round(x, 2): a float with two decimals is [neg, hund], hund its         *)
(* magnitude in hundredths.  exact says that the rounding is decided: the  *)
(* value is not a tie, and for a bracket both ends round alike.            *)
(***************************************************************************)
\* k decimal digits of r / d (0 <= r < d): [val, rem]
RECURSIVE DecDigits(_, _, _, _)
DecDigits(r, d, k, acc) ==
    IF k = 0 THEN [val |-> acc, rem |-> r]
    ELSE DecDigits((10 * r) % d, d, k - 1, 10 * acc + ((10 * r) \div d))

\* the integer part and the k digits f of n / d, rounded half up
RoundDigits(n, d, k, f) ==
    [h   |-> (n \div d) * Pow10(k) + f.val + (IF 2 * f.rem >= d THEN 1 ELSE 0),
     tie |-> 2 * f.rem = d]

\* n / d * 10^k rounded to the nearest integer: [h, tie]
RoundScaled(n, d, k) == RoundDigits(n, d, k, DecDigits(n % d, d, k, 0))

\* the rounded ends l and u of a bracket
RoundBracket(neg, l, u) ==
    [neg |-> neg, hund |-> l.h, exact |-> l.h = u.h /\ ~l.tie /\ ~u.tie]

\* round(q, 2) of a quotient of logarithms
Round2Log(q) ==
    RoundBracket(q.neg, RoundScaled(q.nlo, q.dhi, 2), RoundScaled(q.nhi, q.dlo, 2))

RoundOne(neg, r) == [neg |-> neg, hund |-> r.h, exact |-> ~r.tie]

\* round(x * 100, 2) of a float x
RoundPercent(x) == RoundOne(x.neg, RoundScaled(x.num, x.den, 4))

\* math.ceil of a two-decimal float: an int
Ceil(x) ==
    IF x.neg THEN 0 - (x.hund \div 100) ELSE (x.hund + 99) \div 100

(***************************************************************************)
(* str() and rstrip                                                        *)
(***************************************************************************)
RECURSIVE NatStr(_)
NatStr(n) == IF n < 10 THEN <<DigitChar(n)>> ELSE Append(NatStr(n \div 10), DigitChar(n % 10))

\* str(int)
IntStr(n) == IF n < 0 THEN <<"-">> \o NatStr(0 - n) ELSE NatStr(n)

\* the decimals of f hundredths: one digit when the second is a zero
Decimals(f) ==
    IF f % 10 = 0 THEN <<DigitChar(f \div 10)>>
    ELSE <<DigitChar(f \div 10), DigitChar(f % 10)>>

\* str(float) of a two-decimal float: the shortest decimal that reads back, which
\* always has a decimal point ("3.0", "16.4", "16.43", "-0.0")
FloatStr(x) ==
    (IF x.neg THEN <<"-">> ELSE <<>>) \o NatStr(x.hund \div 100) \o <<".">>
      \o Decimals(x.hund % 100)

\* s.rstrip(chars): trailing characters of the set chars removed
RECURSIVE RStrip(_, _)
RStrip(s, chars) ==
    IF s # <<>> /\ s[Len(s)] \in chars THEN RStrip(SubSeq(s, 1, Len(s) - 1), chars) ELSE s

\* a character sequence as a string
RECURSIVE Text(_)
Text(s) == IF s = <<>> THEN "" ELSE Head(s) \o Text(Tail(s))

(***************************************************************************)
(* WhenToExpect.query                                                      *)
(***************************************************************************)
DefaultTitle ==
    "Enter a probability (n/m) or odds (n:m) and optionally how sure you want to be that it occurs (default: 0.5)!"

DefaultIcoPath == "icon/expect.png"

TooManyTitle == "Too many inputs!"

InvalidTitle == "Invalid input(s)!"

\* the locals of query before the try block is entered
NoLocals ==
    [probability |-> "unset", confidence_level |-> "unset",
     expected_trials_precise |-> "unset", expected_trials |-> "unset",
     expected_trials_output |-> "unset", tries |-> "unset", percent |-> "unset"]

\* "return [result]": a list of one dict
Return(title, outcome, locals) ==
    [kind    |-> "return",
     value   |-> << [Title |-> title, IcoPath |-> DefaultIcoPath] >>,
     outcome |-> outcome,
     locals  |-> locals,
     exact   |-> TRUE]

\* an exception that leaves query
Raise(exc) ==
    [kind |-> "raise", exc |-> exc, value |-> <<>>, outcome |-> "exception",
     locals |-> NoLocals, exact |-> TRUE]

\* the f-string of the success title (the source separates the number from "%"
\* by a thin space, U+2009, written here as a plain space)
SuccessTitle(percent, expected_trials, expected_trials_output, tries) ==
    "Event is expected with a probability of " \o Text(FloatStr(percent)) \o " % after "
      \o Text(IntStr(expected_trials)) \o Text(expected_trials_output)
      \o " " \o tries \o "."

\* a slip that catches the domain error only
CaughtValueErrorOnly(exc) == exc = "ValueError"

\* "except (ValueError, ZeroDivisionError)"
Caught(exc) == exc \in {"ValueError", "ZeroDivisionError"}

\* a slip that computes for every non-empty query
ComputesAnyCount(n) == n >= 1

\* "if len(query_parts) in (1, 2)"
Computes(n) == n \in {1, 2}

\* a slip that defaults the confidence level to 0.6
DefaultConfidenceOther == MkFloat(FALSE, 3, 5)

\* the confidence level of a query of one token
DefaultConfidence == FHalf

\* the two-decimal float without the model's exact flag
TwoDecimals(x) == [neg |-> x.neg, hund |-> x.hund]

\* the return of the try block with every local assigned
Success(probability, confidence_level, expected_trials_precise, expected_trials, expected_trials_output, tries, percent) ==
    [Return(SuccessTitle(TwoDecimals(percent), expected_trials,
                         expected_trials_output, tries),
            "success",
            [probability |-> probability,
             confidence_level |-> confidence_level,
             expected_trials_precise |-> TwoDecimals(expected_trials_precise),
             expected_trials |-> expected_trials,
             expected_trials_output |-> expected_trials_output,
             tries |-> tries,
             percent |-> TwoDecimals(percent)])
     EXCEPT !.exact = expected_trials_precise.exact /\ percent.exact]

\* the output formatting: stripped is str(expected_trials_precise).rstrip("0.")
Format(probability, confidence_level, expected_trials_precise, expected_trials, stripped) ==
    Success(probability, confidence_level, expected_trials_precise, expected_trials,
            IF stripped \notin {IntStr(expected_trials), <<"-">>}
            THEN <<" ", "(">> \o stripped \o <<")">>
            ELSE <<>>,
            IF expected_trials_precise.neg \/ expected_trials_precise.hund # 100
            THEN "tries" ELSE "try",
            RoundPercent(confidence_level))

\* the conditional expression around rstrip: str of a float is never "0"
Stripped(str) == IF str # <<"0">> THEN RStrip(str, {"0", "."}) ELSE <<"0">>

\* after round(..., 2): math.ceil and the formatting
Rounded(probability, confidence_level, expected_trials_precise) ==
    Format(probability, confidence_level, expected_trials_precise,
           Ceil(expected_trials_precise), Stripped(FloatStr(expected_trials_precise)))

\* the try block given the result lg of math.log
Logged(probability, confidence_level, lg) ==
    IF lg.kind = "raise"
    THEN IF Caught(lg.exc)
         THEN Return(InvalidTitle, "invalid",
                     [probability |-> probability, confidence_level |-> confidence_level]
                       @@ NoLocals)
         ELSE Raise(lg.exc)
    ELSE Rounded(probability, confidence_level, Round2Log(lg))

\* the try block: the formula and the output formatting
Expect(probability, confidence_level) ==
    Logged(probability, confidence_level,
           MathLog(OneMinus(confidence_level), OneMinus(probability)))

\* the two parses: an exception of fraction_to_float leaves query
Parsed(probability, confidence_level) ==
    IF probability.kind = "raise" THEN Raise(probability.exc)
    ELSE IF confidence_level.kind = "raise" THEN Raise(confidence_level.exc)
    ELSE Expect(probability.val, confidence_level.val)

\* the branches on len(query_parts)
Branch(query_parts) ==
    IF Computes(Len(query_parts))
    THEN Parsed(fraction_to_float(query_parts[1]),
                IF Len(query_parts) >= 2 THEN fraction_to_float(query_parts[2])
                ELSE [kind |-> "return", val |-> DefaultConfidence])
    ELSE IF Len(query_parts) # 0 THEN Return(TooManyTitle, "too_many", NoLocals)
    ELSE Return(DefaultTitle, "prompt", NoLocals)

\* the whole method, with exact telling whether every rounding was decided
QueryCall(query_text) == Branch(Split(Strip(query_text)))

\* a result without the model's exact flag
Observed(r) == [f \in DOMAIN r \ {"exact"} |-> r[f]]

\* query(query): what the host receives
query(query_text) == Observed(QueryCall(query_text))

(***************************************************************************)
(* Inputs                                                                  *)
(***************************************************************************)
MaxLen == 4
MaxTokens == 3
MaxConfMilli == 1000

Alphabet == {"0", "1", "/", ":", ".", "-", " ", "x"}

\* every string over Alphabet of at most MaxLen characters
Strings == UNION {[1..k -> Alphabet] : k \in 0..MaxLen}

\* tokens the queries of several tokens are built from
TokenPool ==
    { <<"1">>, <<"x">>, <<".", "5">>, <<"1", "/", "0">>, <<"0", ":", "0">> }

RECURSIVE Join(_)
Join(tokens) ==
    IF tokens = <<>> THEN <<>>
    ELSE IF Len(tokens) = 1 THEN tokens[1]
    ELSE tokens[1] \o <<" ">> \o Join(Tail(tokens))

TokenQueries == {Join(ts) : ts \in UNION {[1..k -> TokenPool] : k \in 1..MaxTokens}}

\* probabilities as decimals, fractions and odds
ProbTokens ==
    { <<"0", ".", "5">>, <<"0", ".", "9">>, <<"0", ".", "1">>, <<"0", ".", "0", "5">>,
      <<"1", "/", "2", "0">>, <<"1", ":", "1", "9">>, <<"1", "/", "6">>, <<"1", ":", "1">>,
      <<"1", "/", "8">>, <<"0", ".", "1", "5">>, <<"-", "1">>, <<"2">> }

\* the confidence k / 1000 written with three decimals
Milli(k) ==
    NatStr(k \div 1000) \o <<".", DigitChar((k \div 100) % 10),
                            DigitChar((k \div 10) % 10), DigitChar(k % 10)>>

ConfTokens == {Milli(k) : k \in 0..MaxConfMilli}

NumericQueries ==
    ProbTokens \cup {p \o <<" ">> \o c : p \in ProbTokens, c \in ConfTokens}

\* the model covers the queries whose roundings the brackets decide
Queries == {q \in Strings \cup TokenQueries \cup NumericQueries : QueryCall(q).exact}

Tokens == Strings \cup TokenPool \cup ProbTokens

(***************************************************************************)
(* The plugin process: the host starts it with one request, the request's  *)
(* method is called with its parameter, and the process ends.              *)
(***************************************************************************)
NoRet == [kind |-> "none"]

Init ==
    /\ pc = "call"
    /\ ret = NoRet
    /\ \/ method = "query" /\ arg \in Queries
       \/ method = "fraction_to_float" /\ arg \in Tokens

Query ==
    /\ pc = "call"
    /\ method = "query"
    /\ ret' = query(arg)
    /\ pc' = "done"
    /\ UNCHANGED <<method, arg>>

FractionToFloat ==
    /\ pc = "call"
    /\ method = "fraction_to_float"
    /\ ret' = fraction_to_float(arg)
    /\ pc' = "done"
    /\ UNCHANGED <<method, arg>>

Next == Query \/ FractionToFloat

Spec == Init /\ [][Next]_vars

(***************************************************************************)
(* Reference notions the claims are stated with                            *)
(***************************************************************************)
Called(m) == pc = "done" /\ method = m

\* the number of whitespace-separated tokens of a string
CountTokens(s) ==
    Cardinality({i \in 1..Len(s) : ~IsSpace(s[i]) /\ (i = 1 \/ IsSpace(s[i - 1]))})

\* the one result item a returned list must consist of
Item(title) == << [Title |-> title, IcoPath |-> DefaultIcoPath] >>

AllDigits(s) == s # <<>> /\ \A i \in 1..Len(s) : s[i] \in Digits

Positions(s, ch) == {i \in 1..Len(s) : s[i] = ch}

Before(s, i) == SubSeq(s, 1, i - 1)
After(s, i)  == SubSeq(s, i + 1, Len(s))

\* a non-negative decimal: digits, or digits "." digits
IsDecimal(s) ==
    \/ AllDigits(s)
    \/ \E i \in Positions(s, ".") : AllDigits(Before(s, i)) /\ AllDigits(After(s, i))

\* its value as a fraction [n, d]
DecimalValue(s) ==
    IF AllDigits(s) THEN [n |-> DigitsVal(s), d |-> 1]
    ELSE LET i == CHOOSE i \in Positions(s, ".") : TRUE
         IN  [n |-> DigitsVal(Before(s, i)) * Pow10(Len(After(s, i))) + DigitsVal(After(s, i)),
              d |-> Pow10(Len(After(s, i)))]

\* two non-negative decimals around one separator
IsPair(s, sep) ==
    \E i \in Positions(s, sep) : IsDecimal(Before(s, i)) /\ IsDecimal(After(s, i))

Left(s, sep)  == DecimalValue(Before(s, CHOOSE i \in Positions(s, sep) : TRUE))
Right(s, sep) == DecimalValue(After(s, CHOOSE i \in Positions(s, sep) : TRUE))

\* the float x is the non-negative fraction n / d
IsFraction(x, n, d) == ~IsNeg(x) /\ x.num * d = n * x.den

\* a token that is none of the three forms, not even in a prefix
Unparseable(t) ==
    /\ PyFloat(t).kind = "raise"
    /\ ~ReMatch(t, "/").ok
    /\ ~ReMatch(t, ":").ok

\* a token of a matched form whose divisor is zero
ZeroDivisor(t) ==
    /\ PyFloat(t).kind = "raise"
    /\ \/ ReMatch(t, "/").ok /\ DecimalValue(ReMatch(t, "/").g2).n = 0
       \/ /\ ~ReMatch(t, "/").ok /\ ReMatch(t, ":").ok
          /\ DecimalValue(ReMatch(t, ":").g1).n + DecimalValue(ReMatch(t, ":").g2).n = 0

\* 0 < x < 1
InUnit(x) == IsPos(x) /\ FLess(x, FOne)

\* the values of p and c for which the formula has no value
NoValue(p, c) ==
    \/ FEq(p, FOne) \/ FEq(c, FOne)
    \/ ~IsPos(OneMinus(p))
    \/ IsZero(p)
    \/ FLess(FOne, c)

\* what a caller observes of a call: the returned list, or the exception
Observable(r) == IF r.kind = "raise" THEN <<"raise", r.exc>> ELSE <<"return", r.value>>

\* min(base^n, cap + 1)
RECURSIVE PowCapped(_, _, _)
PowCapped(base, n, cap) ==
    IF n = 0 THEN 1
    ELSE LET r == PowCapped(base, n - 1, cap)
         IN  IF r > cap \div base THEN cap + 1 ELSE r * base

\* the largest number a product may reach
MaxProduct == 2^30

\* 1 - (1 - p)^n >= c can be decided in exact integers
Decidable(p, c, n) ==
    LET u == OneMinus(p)   w == OneMinus(c)
    IN  PowCapped(u.den, n, MaxProduct \div w.den) <= MaxProduct \div w.den

\* 1 - (1 - p)^n >= c, that is (1 - p)^n <= 1 - c, for p and c in (0, 1)
Reaches(p, c, n) ==
    LET u == OneMinus(p)   w == OneMinus(c)
        cap == MaxProduct \div w.den
    IN  PowCapped(u.num, n, cap) * w.den <= w.num * PowCapped(u.den, n, cap)

\* the decimal form of a two-decimal float without trailing fractional zeros and
\* without a trailing decimal point
PlainDecimal(x) ==
    LET f == x.hund % 100
        i == (IF x.neg THEN <<"-">> ELSE <<>>) \o NatStr(x.hund \div 100)
    IN  IF f = 0 THEN i
        ELSE IF f % 10 = 0 THEN i \o <<".", DigitChar(f \div 10)>>
        ELSE i \o <<".", DigitChar(f \div 10), DigitChar(f % 10)>>

(***************************************************************************)
(* Claims                                                                  *)
(***************************************************************************)

\* C1: every call of query returns normally a list of exactly one item whose
\* title is the default prompt, "Too many inputs!", "Invalid input(s)!" or the
\* success sentence; no input makes the call raise.
C1_OneItemOfFourOutcomes ==
    Called("query") =>
        /\ ret.kind = "return"
        /\ Len(ret.value) = 1
        /\ ret.value[1].IcoPath = DefaultIcoPath
        /\ \/ ret.value[1].Title \in {DefaultTitle, TooManyTitle, InvalidTitle}
           \/ /\ ret.outcome = "success"
              /\ ret.value[1].Title =
                     SuccessTitle(ret.locals.percent, ret.locals.expected_trials,
                                  ret.locals.expected_trials_output, ret.locals.tries)

\* C2: fraction_to_float is total: it returns a float for every token and never
\* raises, and it returns 0.0 when the token matches none of the three forms or
\* the arithmetic on a matched form fails (a zero divisor).
C2_ParseTotal ==
    Called("fraction_to_float") =>
        /\ ret.kind = "return"
        /\ Unparseable(arg) \/ ZeroDivisor(arg) => ret.val = FZero

\* C3: the number of tokens alone fixes the outcome of a query of zero tokens
\* (the default prompt) and of more than two tokens ("Too many inputs!"),
\* whatever the tokens contain; neither is invalid, a success or an exception.
C3_TokenCountDecides ==
    Called("query") =>
        /\ CountTokens(arg) = 0 =>
               /\ ret.kind = "return"
               /\ ret.value = Item(DefaultTitle)
               /\ ret.outcome = "prompt"
        /\ CountTokens(arg) > 2 =>
               /\ ret.kind = "return"
               /\ ret.value = Item(TooManyTitle)
               /\ ret.outcome = "too_many"

\* C3 witness: a query of three tokens, the first with a zero divisor, is
\* answered "Too many inputs!".
C3_Witness ==
    /\ Called("query")
    /\ CountTokens(arg) = 3
    /\ fraction_to_float(Split(arg)[1]).kind = "raise"
    /\ ret.value = Item(TooManyTitle)

C5_AtLeastOneTry ==
    ( /\ Called("query")
      /\ ret.outcome = "success"
      /\ InUnit(ret.locals.probability)
      /\ InUnit(ret.locals.confidence_level) )
    => ret.locals.expected_trials >= 1

\* C6: for p and c in (0, 1) the integer count n of the success sentence is the
\* smallest n with 1 - (1 - p)^n >= c: n reaches the confidence and n - 1 does
\* not (stated for the counts from 1 on whose powers fit the integers).
C6_SmallestCount ==
    ( /\ Called("query")
      /\ ret.outcome = "success"
      /\ InUnit(ret.locals.probability)
      /\ InUnit(ret.locals.confidence_level)
      /\ ret.locals.expected_trials >= 1
      /\ Decidable(ret.locals.probability, ret.locals.confidence_level,
                   ret.locals.expected_trials) )
    => /\ Reaches(ret.locals.probability, ret.locals.confidence_level,
                  ret.locals.expected_trials)
       /\ ~Reaches(ret.locals.probability, ret.locals.confidence_level,
                   ret.locals.expected_trials - 1)

\* C7: a query of the single token t is answered as the query of t followed by
\* the token "0.5": the same list, or the same exception.
C7_DefaultConfidence ==
    Called("query") /\ CountTokens(arg) = 1 =>
        Observable(ret) = Observable(query(Split(arg)[1] \o <<" ", "0", ".", "5">>))

\* C7 witness: the query "0.5" is answered with 50.0 % after 1 try.
C7_Witness ==
    /\ Called("query")
    /\ arg = <<"0", ".", "5">>
    /\ ret.value = Item("Event is expected with a probability of 50.0 % after 1 try.")

\* C8: fraction_to_float yields d for a decimal d, else n/m for a token n/m
\* with m > 0, else a/(a+b) for a token a:b with a + b > 0; "0.05", "1/20" and
\* "1:19" all yield 0.05.
C8_ParseReference ==
    Called("fraction_to_float") =>
        /\ IsDecimal(arg) =>
               /\ ret.kind = "return"
               /\ IsFraction(ret.val, DecimalValue(arg).n, DecimalValue(arg).d)
        /\ ~IsDecimal(arg) /\ IsPair(arg, "/") /\ Right(arg, "/").n > 0 =>
               /\ ret.kind = "return"
               /\ IsFraction(ret.val, Left(arg, "/").n * Right(arg, "/").d,
                                      Left(arg, "/").d * Right(arg, "/").n)
        /\ ( /\ ~IsDecimal(arg) /\ ~IsPair(arg, "/") /\ IsPair(arg, ":")
             /\ Left(arg, ":").n + Right(arg, ":").n > 0 ) =>
               /\ ret.kind = "return"
               /\ IsFraction(ret.val,
                             Left(arg, ":").n * Right(arg, ":").d,
                             Left(arg, ":").n * Right(arg, ":").d
                               + Right(arg, ":").n * Left(arg, ":").d)
        /\ arg \in { <<"0", ".", "0", "5">>, <<"1", "/", "2", "0">>, <<"1", ":", "1", "9">> } =>
               /\ ret.kind = "return"
               /\ ret.val = MkFloat(FALSE, 1, 20)

\* C8 witness: the odds "1:19" are parsed to 1/20.
C8_Witness ==
    /\ Called("fraction_to_float")
    /\ arg = <<"1", ":", "1", "9">>
    /\ ret.kind = "return"
    /\ ret.val = MkFloat(FALSE, 1, 20)

\* C9: in the success sentence an integral precise value (equal to the integer
\* count) shows no parenthetical, and a parenthetical that is shown holds the
\* decimal form of the precise value with only trailing fractional zeros and a
\* trailing decimal point removed.
C9_Parenthetical ==
    Called("query") /\ ret.outcome = "success" =>
        /\ ret.locals.expected_trials_precise.hund % 100 = 0 =>
               ret.locals.expected_trials_output = <<>>
        /\ ret.locals.expected_trials_output # <<>> =>
               ret.locals.expected_trials_output =
                   <<" ", "(">> \o PlainDecimal(ret.locals.expected_trials_precise) \o <<")">>

\* C10: in a query of two tokens whose first parses to p in (0, 1) and whose
\* second is unparseable the answer is the success sentence for 0.0 % with
\* count 0 and no parenthetical; an unparseable first token always yields
\* "Invalid input(s)!".
C10_ParseFailureByPosition ==
    Called("query") /\ CountTokens(arg) \in {1, 2} =>
        LET parts == Split(arg)
            p == fraction_to_float(parts[1])
        IN  /\ ( /\ Len(parts) = 2
                 /\ p.kind = "return" /\ InUnit(p.val)
                 /\ Unparseable(parts[2]) ) =>
                    /\ ret.kind = "return"
                    /\ ret.value =
                         Item("Event is expected with a probability of 0.0 % after 0 tries.")
            /\ Unparseable(parts[1]) =>
                    /\ ret.kind = "return"
                    /\ ret.value = Item(InvalidTitle)

====
